---- MODULE Spec2Model ----
(***************************************************************************)
(* Model of fasta2genes.py: extraction of per-gene subsequences from       *)
(* multi-species alignment files.                                          *)
(*                                                                         *)
(* A Python string is a sequence of one-character strings.  A line of the  *)
(* index file is the token list that line.split() yields.  A line of a     *)
(* fasta file is a record [hdr, text]: hdr says whether the line starts    *)
(* with '>', text is the rest of the line.                                 *)
(***************************************************************************)
EXTENDS Integers, Sequences, FiniteSets, TLC

(***************************************************************************)
(* Bounds of the model.                                                    *)
(***************************************************************************)
\* longest species sequence handed to the extraction engine
MaxLen == 4
\* largest gene coordinate handed to the extraction engine
MaxPos == 4
\* most lines of an index file
MaxGenes == 2
\* most fasta files on one command line
MaxFiles == 2
\* most lines of all fasta files of one command line together
MaxLines == 4
\* most lines of an index file that may hold malformed lines
MaxIdxLines == 2
\* most tokens on a line of such an index file
MaxTokens == 8

\* characters of a species sequence: letters, the unknown marker, gap, ambiguous
Alphabet == {"A", "C", "X", "-", "?"}

VARIABLES
    \* ---- the extraction engine on one (species, gene range) pair ----
    epc,        \* "in" | "out" | "again" | "off"
    species,    \* SpeciesInfo(name, sequence)
    gidx,       \* GeneInfo(name, start, end)
    gene,       \* extractGene(species, gidx)
    valid,      \* isValidGene(gene)
    gene2,      \* extractGene run again on its own output
    \* ---- one run of main ----
    pc,           \* "main" | "files" | "exit" | "fatal" | "off"
    debug,        \* the global debug flag (-d)
    index_file,   \* content of the index file (-i): its lines, each a token list
    remainder,    \* content of the fasta files named on the command line
    gene_indexes, \* the GeneInfo list readGeneIndexes returned
    nprocessed,   \* how many fasta files processFastaFile has completed
    gene_species, \* the dictionary gene name -> SpeciesInfo list of the last file
    fs            \* the gene files on disk: file of gene name -> [exists, lines]

evars == <<epc, species, gidx, gene, valid, gene2>>

rvars == <<pc, debug, index_file, remainder, gene_indexes, nprocessed,
           gene_species, fs>>

vars == <<epc, species, gidx, gene, valid, gene2, pc, debug, index_file,
          remainder, gene_indexes, nprocessed, gene_species, fs>>

(***************************************************************************)
(* The record types of the program.                                        *)
(***************************************************************************)
GeneInfo(name, start, end) == [name |-> name, start |-> start, end |-> end]

SpeciesInfo(name, sequence) == [name |-> name, sequence |-> sequence]

NoRecord == SpeciesInfo("", <<>>)

(***************************************************************************)
(* Python string primitives used by the engine.                            *)
(***************************************************************************)
\* the clamping of one slice index: a negative index counts from the end
SliceIndex(i, n) ==
    IF i < 0 THEN (IF i + n < 0 THEN 0 ELSE i + n)
    ELSE (IF i > n THEN n ELSE i)

\* s[a:b]
Slice(s, a, b) ==
    LET lo == SliceIndex(a, Len(s))
        hi == SliceIndex(b, Len(s))
    IN  IF lo >= hi THEN <<>> ELSE SubSeq(s, lo + 1, hi)

\* s.replace(old, new) for one-character old and new
replace(s, old, new) == [i \in 1..Len(s) |-> IF s[i] = old THEN new ELSE s[i]]

RECURSIVE lstrip(_, _)
\* s.lstrip(ch)
lstrip(s, ch) ==
    IF s # <<>> /\ Head(s) = ch THEN lstrip(Tail(s), ch) ELSE s

RECURSIVE rstrip(_, _)
\* s.rstrip(ch)
rstrip(s, ch) ==
    IF s # <<>> /\ s[Len(s)] = ch THEN rstrip(SubSeq(s, 1, Len(s) - 1), ch) ELSE s

\* ch * n : the empty string when n <= 0
Times(ch, n) == IF n <= 0 THEN <<>> ELSE [i \in 1..n |-> ch]

\* s.startswith(ch)
startswith(s, ch) == s # <<>> /\ s[1] = ch

\* s.count(ch)
count(s, ch) == Cardinality({i \in 1..Len(s) : s[i] = ch})

(***************************************************************************)
(* The extraction engine.                                                  *)
(***************************************************************************)
\* a slice that stops one character early
extractGene_sliceShort(sp, g) ==
    LET seq0    == Slice(sp.sequence, g.start - 1, g.end - 1)
        genelen == g.end - g.start + 1
        seq1    == replace(seq0, "?", "X")
        seq2    == lstrip(seq1, "-")
        seq3    == Times("X", genelen - Len(seq2)) \o seq2
        seq4    == rstrip(seq3, "-")
        seq5    == seq4 \o Times("X", genelen - Len(seq4))
    IN  SpeciesInfo(sp.name, seq5)

\* trailing gaps removed and not padded back
extractGene_noEndPad(sp, g) ==
    LET seq0    == Slice(sp.sequence, g.start - 1, g.end)
        genelen == g.end - g.start + 1
        seq1    == replace(seq0, "?", "X")
        seq2    == lstrip(seq1, "-")
        seq3    == Times("X", genelen - Len(seq2)) \o seq2
        seq4    == rstrip(seq3, "-")
    IN  SpeciesInfo(sp.name, seq4)

\* every gap, not only the edge gaps, recoded as unknown
extractGene_allGaps(sp, g) ==
    LET seq0    == Slice(sp.sequence, g.start - 1, g.end)
        genelen == g.end - g.start + 1
        seq1    == replace(replace(seq0, "?", "X"), "-", "X")
        seq3    == Times("X", genelen - Len(seq1)) \o seq1
    IN  SpeciesInfo(sp.name, seq3)

\* the length deficit made up at the right end instead of the left
extractGene_padRight(sp, g) ==
    LET seq0    == Slice(sp.sequence, g.start - 1, g.end)
        genelen == g.end - g.start + 1
        seq1    == replace(seq0, "?", "X")
        seq2    == lstrip(seq1, "-")
        seq3    == seq2 \o Times("X", genelen - Len(seq2))
        seq4    == rstrip(seq3, "-")
        seq5    == seq4 \o Times("X", genelen - Len(seq4))
    IN  SpeciesInfo(sp.name, seq5)

extractGene(sp, g) ==
    LET seq0    == Slice(sp.sequence, g.start - 1, g.end)
        genelen == g.end - g.start + 1
        seq1    == replace(seq0, "?", "X")
        seq2    == lstrip(seq1, "-")
        seq3    == Times("X", genelen - Len(seq2)) \o seq2
        seq4    == rstrip(seq3, "-")
        seq5    == seq4 \o Times("X", genelen - Len(seq4))
    IN  SpeciesInfo(sp.name, seq5)

\* a gene that starts with the unknown marker is rejected outright
isValidGene_startX(g) == ~ startswith(g.sequence, "X")

\* a gene is rejected as soon as it holds one unknown marker
isValidGene_anyX(g) == count(g.sequence, "X") = 0

isValidGene(g) ==
    IF startswith(g.sequence, "X")
    THEN (IF count(g.sequence, "X") = Len(g.sequence) THEN FALSE ELSE TRUE)
    ELSE TRUE

(***************************************************************************)
(* The engine on its own: every species sequence and gene range within     *)
(* the bounds, one extraction and validity verdict as in the loop body of  *)
(* addSpeciesToGeneArray, then the extraction run again on its output.     *)
(***************************************************************************)
SeqsUpTo(S, n) == UNION {[1..k -> S] : k \in 0..n}

RunOff ==
    /\ pc = "off"
    /\ debug = FALSE
    /\ index_file = <<>>
    /\ remainder = <<>>
    /\ gene_indexes = <<>>
    /\ nprocessed = 0
    /\ gene_species = <<>>
    /\ fs = <<>>

InitGene ==
    /\ RunOff
    /\ epc = "in"
    /\ species \in {SpeciesInfo("A", s) : s \in SeqsUpTo(Alphabet, MaxLen)}
    /\ gidx \in {GeneInfo("G1", a, b) : a \in 0..MaxPos, b \in 0..MaxPos}
    /\ gene = NoRecord
    /\ valid = FALSE
    /\ gene2 = NoRecord

ExtractStep ==
    /\ epc = "in"
    /\ gene' = extractGene(species, gidx)
    /\ valid' = isValidGene(extractGene(species, gidx))
    /\ epc' = "out"
    /\ UNCHANGED <<species, gidx, gene2>>
    /\ UNCHANGED rvars

ReExtractStep ==
    /\ epc = "out"
    /\ gene2' = extractGene(SpeciesInfo(gene.name, gene.sequence),
                            GeneInfo(gidx.name, 1, Len(gene.sequence)))
    /\ epc' = "again"
    /\ UNCHANGED <<species, gidx, gene, valid>>
    /\ UNCHANGED rvars

NextGene == ExtractStep \/ ReExtractStep

SpecGene == InitGene /\ [][NextGene]_vars

(***************************************************************************)
(* Reading the two input formats.                                          *)
(***************************************************************************)
\* the decimal literals int() is given in the model
Digits == <<"0", "1", "2", "3", "4", "5", "6", "7", "8", "9">>

IsNumeric(tok) == \E d \in 1..Len(Digits) : Digits[d] = tok

\* int(tok) for a token int() accepts
int(tok) == (CHOOSE d \in 1..Len(Digits) : Digits[d] = tok) - 1

\* the exception one line of the index file raises, "" when it raises none:
\* fields[1], int(fields[3]), int(fields[5]) in this order
IndexLineError(fields) ==
    IF Len(fields) < 2 THEN "IndexError"
    ELSE IF Len(fields) < 4 THEN "IndexError"
    ELSE IF ~ IsNumeric(fields[4]) THEN "ValueError"
    ELSE IF Len(fields) < 6 THEN "IndexError"
    ELSE IF ~ IsNumeric(fields[6]) THEN "ValueError"
    ELSE ""

RECURSIVE readGeneIndexesFrom(_, _)
\* the loop of readGeneIndexes over the remaining lines, gene_list so far
readGeneIndexesFrom(lines, gene_list) ==
    IF lines = <<>> THEN [err |-> "", gene_list |-> gene_list]
    ELSE LET fields == Head(lines)
         IN  IF IndexLineError(fields) # ""
             THEN [err |-> IndexLineError(fields), gene_list |-> <<>>]
             ELSE readGeneIndexesFrom(
                      Tail(lines),
                      Append(gene_list,
                             GeneInfo(fields[2], int(fields[4]), int(fields[6]))))

RECURSIVE readGeneIndexes_skipBad(_)
\* a bad line is skipped and the reading goes on with the next line
readGeneIndexes_skipBad(lines) ==
    IF lines = <<>> THEN [err |-> "", gene_list |-> <<>>]
    ELSE LET fields == Head(lines)
             rest   == readGeneIndexes_skipBad(Tail(lines))
         IN  IF IndexLineError(fields) # "" THEN rest
             ELSE [err |-> "",
                   gene_list |-> <<GeneInfo(fields[2], int(fields[4]), int(fields[6]))>>
                                 \o rest.gene_list]

readGeneIndexes(lines) == readGeneIndexesFrom(lines, <<>>)

RECURSIVE readSpeciesFrom(_, _, _, _)
\* the loop of readSpecies: sname is unbound until the first header line
readSpeciesFrom(lines, bound, sname, species_list) ==
    IF lines = <<>> THEN [err |-> "", species_list |-> species_list]
    ELSE LET line == Head(lines)
         IN  IF line.hdr
             THEN readSpeciesFrom(Tail(lines), TRUE, line.text, species_list)
             ELSE IF ~ bound
                  THEN [err |-> "NameError", species_list |-> <<>>]
                  ELSE readSpeciesFrom(Tail(lines), bound, sname,
                                       Append(species_list,
                                              SpeciesInfo(sname, line.text)))

readSpecies(lines) == readSpeciesFrom(lines, FALSE, "", <<>>)

(***************************************************************************)
(* Aggregation and writing.                                                *)
(***************************************************************************)
RECURSIVE addSpeciesToGeneArray_noCheck(_, _, _)
\* every extracted gene is added, valid or not
addSpeciesToGeneArray_noCheck(sp, gidxs, genelist) ==
    IF gidxs = <<>> THEN genelist
    ELSE LET g  == Head(gidxs)
             ge == extractGene(sp, g)
         IN  addSpeciesToGeneArray_noCheck(
                 sp, Tail(gidxs), [genelist EXCEPT ![g.name] = Append(@, ge)])

RECURSIVE addSpeciesToGeneArray(_, _, _)
\* the loop over gene_indexes: genelist with the valid genes of sp appended
addSpeciesToGeneArray(sp, gidxs, genelist) ==
    IF gidxs = <<>> THEN genelist
    ELSE LET g  == Head(gidxs)
             ge == extractGene(sp, g)
         IN  addSpeciesToGeneArray(
                 sp, Tail(gidxs),
                 IF isValidGene(ge)
                 THEN [genelist EXCEPT ![g.name] = Append(@, ge)]
                 ELSE genelist)

RECURSIVE addAllSpecies(_, _, _)
\* the loop of processFastaFile over species_list
addAllSpecies(species_list, gidxs, genelist) ==
    IF species_list = <<>> THEN genelist
    ELSE addAllSpecies(Tail(species_list), gidxs,
                       addSpeciesToGeneArray(Head(species_list), gidxs, genelist))

\* the dictionary processFastaFile starts from: every gene name, no species
emptyGeneSpecies(gidxs) ==
    [n \in {gidxs[i].name : i \in 1..Len(gidxs)} |-> <<>>]

\* the dictionary processFastaFile holds before it writes
aggregate(species_list, gidxs) ==
    addAllSpecies(species_list, gidxs, emptyGeneSpecies(gidxs))

\* the lines a species list is written as
RECURSIVE recordLines(_)
recordLines(species_list) ==
    IF species_list = <<>> THEN <<>>
    ELSE <<[hdr |-> TRUE, text |-> Head(species_list).name],
           [hdr |-> FALSE, text |-> Head(species_list).sequence]>>
         \o recordLines(Tail(species_list))

\* the gene file opened for writing, which truncates it
writeGenesSpecies_truncate(file, species_list) ==
    [exists |-> TRUE, lines |-> recordLines(species_list)]

\* the gene file opened only when there is something to write
writeGenesSpecies_skipEmpty(file, species_list) ==
    IF species_list = <<>> THEN file
    ELSE [exists |-> TRUE, lines |-> file.lines \o recordLines(species_list)]

\* the gene file after open(.., 'a') and the writes: created if absent
writeGenesSpecies(file, species_list) ==
    [exists |-> TRUE, lines |-> file.lines \o recordLines(species_list)]

(***************************************************************************)
(* The inputs of a run within the bounds.                                  *)
(***************************************************************************)
GeneNames == {"G1", "G2"}

\* charset <name> = <start> - <end> ;
IndexLine(name, start, end) == <<"charset", name, "=", start, "-", end, ";">>

WellFormedIndexLines == {IndexLine("G1", "1", "2"), IndexLine("G2", "2", "3")}

\* lines cut short, lines with tokens after the ';', non-numeric coordinates
AnyIndexLines ==
    {SubSeq(IndexLine("G1", a, b) \o [i \in 1..MaxTokens |-> "#"], 1, n) :
        a \in {"1", "x"}, b \in {"2", "y"}, n \in 0..MaxTokens}

Header(name) == [hdr |-> TRUE, text |-> name]

Data(sequence) == [hdr |-> FALSE, text |-> sequence]

FastaLines == {Header("A"), Data(<<"A", "-", "-">>), Data(<<"?", "C">>)}

\* a list of line sequences cut at the given points into Len(cuts) + 1 files
SplitAt(lines, cuts) ==
    [i \in 1..(Len(cuts) + 1) |->
        SubSeq(lines,
               (IF i = 1 THEN 0 ELSE cuts[i - 1]) + 1,
               IF i = Len(cuts) + 1 THEN Len(lines) ELSE cuts[i])]

\* every list of 1..MaxFiles fasta files with at most MaxLines lines in all
FastaFileLists ==
    UNION {
        {SplitAt(lines, cuts) :
            cuts \in {c \in [1..(n - 1) -> 0..Len(lines)] :
                         \A i \in 1..(n - 2) : c[i] <= c[i + 1]}} :
        lines \in SeqsUpTo(FastaLines, MaxLines), n \in 1..MaxFiles}

NoFile == [exists |-> FALSE, lines |-> <<>>]

\* the gene files before the run: G1.fasta holds a record, G2.fasta is absent
PriorFs ==
    [n \in GeneNames |->
        IF n = "G1"
        THEN [exists |-> TRUE, lines |-> <<Header("Z"), Data(<<"C", "C">>)>>]
        ELSE NoFile]

(***************************************************************************)
(* One run of main, from the parsed command line on.                       *)
(***************************************************************************)
EngineOff ==
    /\ epc = "off"
    /\ species = NoRecord
    /\ gidx = GeneInfo("", 1, 1)
    /\ gene = NoRecord
    /\ valid = FALSE
    /\ gene2 = NoRecord

InitRun ==
    /\ pc = "main"
    /\ gene_indexes = <<>>
    /\ nprocessed = 0
    /\ gene_species = <<>>
    /\ fs = PriorFs

Init ==
    /\ EngineOff
    /\ InitRun
    /\ debug \in BOOLEAN
    /\ index_file \in SeqsUpTo(WellFormedIndexLines, MaxGenes)
    /\ remainder \in FastaFileLists

InitIdx ==
    /\ EngineOff
    /\ InitRun
    /\ debug \in BOOLEAN
    /\ index_file \in SeqsUpTo(AnyIndexLines, MaxIdxLines)
    /\ remainder = <<  <<Header("A"), Data(<<"A", "-", "-">>)>>  >>

\* main, line 230: gene_indexes = readGeneIndexes(index_file)
ReadGeneIndexes ==
    /\ pc = "main"
    /\ LET r == readGeneIndexes(index_file)
       IN  IF r.err # ""
           THEN /\ pc' = "fatal"
                /\ UNCHANGED gene_indexes
           ELSE /\ pc' = "files"
                /\ gene_indexes' = r.gene_list
    /\ UNCHANGED <<debug, index_file, remainder, nprocessed, gene_species, fs>>
    /\ UNCHANGED evars

\* main, lines 233-234: one call of processFastaFile on the next fasta file
ProcessFastaFile ==
    /\ pc = "files"
    /\ nprocessed < Len(remainder)
    /\ LET r == readSpecies(remainder[nprocessed + 1])
           d == aggregate(r.species_list, gene_indexes)
       IN  IF r.err # ""
           THEN /\ pc' = "fatal"
                /\ gene_species' = emptyGeneSpecies(gene_indexes)
                /\ UNCHANGED <<nprocessed, fs>>
           ELSE /\ gene_species' = d
                /\ fs' = IF debug THEN fs
                         ELSE [n \in DOMAIN fs |->
                                 IF n \in DOMAIN d
                                 THEN writeGenesSpecies(fs[n], d[n])
                                 ELSE fs[n]]
                /\ nprocessed' = nprocessed + 1
                /\ pc' = IF nprocessed + 1 = Len(remainder) THEN "exit" ELSE "files"
    /\ UNCHANGED <<debug, index_file, remainder, gene_indexes>>
    /\ UNCHANGED evars

Next == ReadGeneIndexes \/ ProcessFastaFile

Spec == Init /\ [][Next]_vars

SpecIdx == InitIdx /\ [][Next]_vars

(***************************************************************************)
(* Vocabulary of the properties, stated on positions of the sequence and   *)
(* independently of the string pipeline of extractGene.                    *)
(***************************************************************************)
\* a GeneRange of the data model with a non-empty window
RangeOk == 1 <= gidx.start /\ gidx.start <= gidx.end

GeneLen == gidx.end - gidx.start + 1

\* the engine has produced its result for the current pair
Extracted == epc \in {"out", "again"}

\* 1-based positions of the species sequence that lie in the window [start, end]
WindowPos == {p \in gidx.start..gidx.end : 1 <= p /\ p <= Len(species.sequence)}

\* the window clipped to the sequence, as a string
Clipped == [j \in 1..Cardinality(WindowPos) |-> species.sequence[gidx.start + j - 1]]

\* position j of string w lies in the maximal leading (trailing) run of gaps
InLeadRun(w, j) == \A i \in 1..j : w[i] = "-"

InTrailRun(w, j) == \A i \in j..Len(w) : w[i] = "-"

LeadRunLen(w) == Cardinality({j \in 1..Len(w) : InLeadRun(w, j)})

AllX(s) == \A i \in 1..Len(s) : s[i] = "X"

\* C1: for every species sequence (empty and shorter-than-range ones included)
\* and every gene range with 1 <= start <= end, the sequence extractGene returns
\* has length exactly end - start + 1.
C1_LengthIsGeneLen ==
    (Extracted /\ RangeOk) => Len(gene.sequence) = gidx.end - gidx.start + 1

\* the engine has run on a sequence that does not reach the end of the range
C1_Witness ==
    /\ Extracted /\ RangeOk
    /\ Len(species.sequence) < gidx.start
    /\ Len(gene.sequence) = 2

\* C2: for every extracted sequence of length >= 1, isValidGene returns False
\* exactly when every character is 'X'; a sequence that starts with 'X' and has
\* a character other than 'X' is valid, and nothing else causes rejection.
C2_InvalidIffAllX ==
    (Extracted /\ Len(gene.sequence) >= 1) => (valid = FALSE <=> AllX(gene.sequence))

\* a gene that starts with 'X', has another character, and was judged valid
C2_Witness ==
    /\ Extracted /\ valid
    /\ Len(gene.sequence) >= 2
    /\ gene.sequence[1] = "X"
    /\ ~ AllX(gene.sequence)

\* C3 as stated: whenever the window holds a character that is neither '-' nor
\* '?', the extracted gene is judged valid.
C3_AsStated ==
    (Extracted /\ RangeOk
       /\ \E p \in WindowPos : species.sequence[p] \notin {"-", "?"})
    => valid

\* C3 amended: whenever the window holds a character that is none of '-', '?'
\* and 'X', the extracted gene is judged valid, edge gaps around it or not.
C3_InformativeWindowIsValid ==
    (Extracted /\ RangeOk
       /\ \E p \in WindowPos : species.sequence[p] \notin {"-", "?", "X"})
    => valid

\* a letter between two edge gaps, judged valid
C3_Witness ==
    /\ Extracted /\ RangeOk /\ valid
    /\ Cardinality(WindowPos) = 3
    /\ Clipped = <<"-", "A", "-">>

\* C4: when the sequence covers the whole range, position i of the output is
\* 'X' if the window has '?' there or i lies in the leading or the trailing run
\* of '-' of the window, and is the window's own character otherwise.
C4_OnlyEdgeGapsAndAmbiguous ==
    (Extracted /\ RangeOk /\ Len(species.sequence) >= gidx.end)
    => /\ Len(gene.sequence) = Len(Clipped)
       /\ \A i \in 1..Len(Clipped) :
            gene.sequence[i] =
                IF \/ Clipped[i] = "?"
                   \/ InLeadRun(Clipped, i)
                   \/ InTrailRun(Clipped, i)
                THEN "X" ELSE Clipped[i]

\* an internal gap kept while both edge gaps are recoded
C4_Witness ==
    /\ Extracted /\ RangeOk /\ Len(species.sequence) >= gidx.end
    /\ Clipped = <<"-", "A", "-", "C">>
    /\ gene.sequence = <<"X", "A", "-", "C">>

\* C5: extractGene run on its own output, with the range [1, len(output)],
\* returns that output unchanged, for every gene range with start <= end.
C5_Idempotent ==
    (epc = "again" /\ gidx.start <= gidx.end) => gene2.sequence = gene.sequence

\* the second run has acted on an output that still holds an internal gap
C5_Witness ==
    /\ epc = "again" /\ RangeOk
    /\ gene.sequence = <<"X", "A", "-", "C">>
    /\ gene2.sequence = gene.sequence

\* C10: when the sequence is shorter than the end of the range, the result is
\* k 'X' followed by the clipped window with '?' replaced, its leading '-'
\* removed and its trailing '-' replaced by 'X', where k is the number of
\* leading '-' removed plus the number of characters the clipping left out.
C10_ShortfallPaddedLeft ==
    (Extracted /\ RangeOk /\ Len(species.sequence) < gidx.end)
    => LET w         == Clipped
           shortfall == GeneLen - Len(w)
           k         == LeadRunLen(w) + shortfall
       IN  /\ Len(gene.sequence) = GeneLen
           /\ \A i \in 1..GeneLen :
                gene.sequence[i] =
                    IF i <= k THEN "X"
                    ELSE IF w[i - shortfall] = "?" \/ InTrailRun(w, i - shortfall)
                         THEN "X" ELSE w[i - shortfall]

\* a clipped window whose letters end up at the right end of the result
C10_Witness ==
    /\ Extracted /\ RangeOk /\ Len(species.sequence) < gidx.end
    /\ Clipped = <<"-", "A", "C">>
    /\ gene.sequence = <<"X", "X", "A", "C">>

(***************************************************************************)
(* Vocabulary of the properties of a run.                                  *)
(***************************************************************************)
\* the gene names of the index that was read
IndexNames == {gene_indexes[j].name : j \in 1..Len(gene_indexes)}

\* the species list of the i-th fasta file of the command line
SpeciesOf(i) == readSpecies(remainder[i]).species_list

\* the valid extracted genes of the i-th file under gene name n: the pairs
\* (species, gene range named n) taken species by species, the ranges of one
\* species in index order, those kept whose extracted gene is valid.  With
\* distinct gene names this is one gene range g and the sequence of
\* extractGene(s, g) over the species s, in file order, that are valid for g.
ValidGenes(i, n) ==
    LET sl    == SpeciesOf(i)
        ng    == Len(gene_indexes)
        pairs == [k \in 1..(Len(sl) * ng) |->
                     <<((k - 1) \div ng) + 1, ((k - 1) % ng) + 1>>]
        Keep(pr) == /\ gene_indexes[pr[2]].name = n
                    /\ isValidGene(extractGene(sl[pr[1]], gene_indexes[pr[2]]))
        kept  == SelectSeq(pairs, Keep)
    IN  [k \in 1..Len(kept) |-> extractGene(sl[kept[k][1]], gene_indexes[kept[k][2]])]

\* the two-line records of a list of extracted genes
AsLines(genes) ==
    [k \in 1..(2 * Len(genes)) |->
        IF k % 2 = 1 THEN [hdr |-> TRUE, text |-> genes[(k + 1) \div 2].name]
        ELSE [hdr |-> FALSE, text |-> genes[k \div 2].sequence]]

RECURSIVE RecordsUpTo(_, _)
\* the records of files 1..i under gene name n, file after file
RecordsUpTo(i, n) ==
    IF i = 0 THEN <<>> ELSE RecordsUpTo(i - 1, n) \o AsLines(ValidGenes(i, n))

\* the last call of processFastaFile ran to its end
FileDone == pc \in {"files", "exit"} /\ nprocessed >= 1

\* C6: the aggregation of one file has a key for every gene name of the index,
\* with an empty group where no species is valid, and the group of a gene is
\* exactly the extracted genes of the species that are valid for it, in the
\* order of the species in the file (under a name the index gives to several
\* ranges: species by species, the ranges in index order).
C6_GroupsAreValidGenesInOrder ==
    FileDone =>
        /\ DOMAIN gene_species = IndexNames
        /\ \A n \in IndexNames : gene_species[n] = ValidGenes(nprocessed, n)

\* two species in one file: both valid for G1 and kept in file order, only
\* the second valid for G2
C6_Witness ==
    /\ FileDone
    /\ IndexNames = {"G1", "G2"} /\ Len(gene_indexes) = 2
    /\ Len(SpeciesOf(nprocessed)) = 2
    /\ Len(gene_species["G1"]) = 2
    /\ gene_species["G1"][1].sequence = <<"A", "X">>
    /\ gene_species["G1"][2].sequence = <<"X", "C">>
    /\ Len(gene_species["G2"]) = 1

\* C7: in a non-debug run a gene file is only appended to: after files
\* f1..fk have been processed its content is its prior content, then the valid
\* records of f1, then those of f2, ..., each record once.
C7_FilesAccumulateByAppend ==
    (pc # "off" /\ ~ debug) =>
        \A n \in GeneNames : fs[n].lines = PriorFs[n].lines \o RecordsUpTo(nprocessed, n)

\* two files processed, each with one valid record for G1, after the prior one
C7_Witness ==
    /\ pc = "exit" /\ ~ debug /\ nprocessed = 2
    /\ Len(ValidGenes(1, "G1")) = 1
    /\ Len(ValidGenes(2, "G1")) = 1
    /\ ValidGenes(1, "G1") # ValidGenes(2, "G1")
    /\ Len(fs["G1"].lines) = 6

\* a line that the format rules out: not seven tokens, or a coordinate that
\* is not a number
MalformedAsStated(fields) ==
    \/ Len(fields) # 7
    \/ ~ IsNumeric(fields[4])
    \/ ~ IsNumeric(fields[6])

\* a line that readGeneIndexes cannot read: fewer than six tokens, or token 3
\* or token 5 not a number
Unreadable(fields) ==
    \/ Len(fields) < 6
    \/ ~ IsNumeric(fields[4])
    \/ ~ IsNumeric(fields[6])

\* the run stopped in readGeneIndexes and nothing was done
AbortedAtIndex ==
    /\ pc = "fatal"
    /\ gene_indexes = <<>>
    /\ nprocessed = 0
    /\ fs = PriorFs

NoValidSpecies(n) == \A i \in 1..Len(remainder) : ValidGenes(i, n) = <<>>

\* C9 as stated: at the end of a run, the file of a gene without a valid
\* species exists and has its previous content.
C9_AsStated ==
    (pc = "exit") =>
        \A n \in IndexNames :
            NoValidSpecies(n) => (fs[n].exists /\ fs[n].lines = PriorFs[n].lines)

\* C9 amended: at the end of a non-debug run, the file of a gene without a
\* valid species exists and has its previous content.
C9_EmptyGroupStillOpensFile ==
    (pc = "exit" /\ ~ debug) =>
        \A n \in IndexNames :
            NoValidSpecies(n) => (fs[n].exists /\ fs[n].lines = PriorFs[n].lines)

\* G2.fasta did not exist, no species is valid for G2, and the run created it
C9_Witness ==
    /\ pc = "exit" /\ ~ debug
    /\ "G2" \in IndexNames
    /\ \E i \in 1..Len(remainder) : SpeciesOf(i) # <<>>
    /\ NoValidSpecies("G2")
    /\ ~ PriorFs["G2"].exists
    /\ fs["G2"] = [exists |-> TRUE, lines |-> <<>>]

====
